---- MODULE Spec2Model ----
(***************************************************************************)
(* Othello rules engine of open_spiel (open_spiel/games/othello.cc):       *)
(* the board, the capture ray walk, move application, legal actions, the   *)
(* terminal test, the returns, the observations, Clone() and the           *)
(* coordinate conversions, as a state machine driven by a caller.          *)
(*   Spec        actions applied to one OthelloState along recorded games  *)
(*   SpecClone   one Clone(), then legal actions on both objects           *)
(*   SpecLegal   plays made of actions LegalActions() returns              *)
(*   SpecCoords  calls of RowColFromMove and RowColToMove                  *)
(***************************************************************************)
EXTENDS Integers, Sequences, FiniteSets, TLC

(* ---------------------------------------------------------------------- *)
(* Constants of the game (othello.h, spiel_utils.h).                       *)
(* ---------------------------------------------------------------------- *)
kNumRows == 8
kNumCols == 8
kNumCells == kNumRows * kNumCols
kPassMove == kNumCells

\* CellState
kEmpty == 0
kBlack == 1
kWhite == 2

\* Direction, in the order of the enumeration; kLast closes it.
kUp == 0
kDown == 1
kLeft == 2
kRight == 3
kUpRight == 4
kUpLeft == 5
kDownRight == 6
kDownLeft == 7
kLast == 8

\* Player ids of the framework that are no player.
kInvalidPlayer == -3
kTerminalPlayerId == -4

Cells == 0 .. (kNumCells - 1)

(* ---------------------------------------------------------------------- *)
(* Bounds of the exploration.                                              *)
(* ---------------------------------------------------------------------- *)
\* Number of actions the caller may apply after leaving the recorded games.
MaxDev == 1
\* The caller leaves the recorded games only within this many applied actions,
\* or after the end of the game.
DevHorizon == 6

(* ---------------------------------------------------------------------- *)
(* Pure helpers.                                                           *)
(* ---------------------------------------------------------------------- *)
\* Variant of GetNext: the kDown case repeats the kDownRight one.
GetNextDownSkewed(row, col, dir) ==
  CASE dir = kUp        -> <<row - 1, col>>
    [] dir = kDown      -> <<row + 1, col + 1>>
    [] dir = kLeft      -> <<row, col - 1>>
    [] dir = kRight     -> <<row, col + 1>>
    [] dir = kUpRight   -> <<row - 1, col + 1>>
    [] dir = kUpLeft    -> <<row - 1, col - 1>>
    [] dir = kDownRight -> <<row + 1, col + 1>>
    [] dir = kDownLeft  -> <<row + 1, col - 1>>

GetNext(row, col, dir) ==
  CASE dir = kUp        -> <<row - 1, col>>
    [] dir = kDown      -> <<row + 1, col>>
    [] dir = kLeft      -> <<row, col - 1>>
    [] dir = kRight     -> <<row, col + 1>>
    [] dir = kUpRight   -> <<row - 1, col + 1>>
    [] dir = kUpLeft    -> <<row - 1, col - 1>>
    [] dir = kDownRight -> <<row + 1, col + 1>>
    [] dir = kDownLeft  -> <<row + 1, col - 1>>

OnBoard(row, col) ==
  (0 <= row) /\ (row < kNumRows) /\ (0 <= col) /\ (col < kNumCols)

\* C++ integer division and remainder truncate toward zero.
CDiv(a, b) == IF a >= 0 THEN a \div b ELSE -((-a) \div b)
CMod(a, b) == a - b * CDiv(a, b)

\* Variant of RowColFromMove: the row and the column are exchanged.
RowColFromMoveTransposed(move) ==
  IF move < 0 \/ move >= kNumCells
  THEN [fatal |-> TRUE, row |-> 0, col |-> 0]
  ELSE [fatal |-> FALSE, row |-> move % kNumRows, col |-> move \div kNumCols]

\* fatal is TRUE when the call ends in SpielFatalError.
RowColFromMove(move) ==
  IF move < 0 \/ move >= kNumCells
  THEN [fatal |-> TRUE, row |-> 0, col |-> 0]
  ELSE [fatal |-> FALSE, row |-> CDiv(move, kNumCols), col |-> CMod(move, kNumRows)]

\* Variant of RowColToMove: the product is compared with kNumCols.
RowColToMoveNarrow(row, col) ==
  IF row < 0 \/ col < 0 \/ row * col >= kNumCols
  THEN [fatal |-> TRUE, move |-> 0]
  ELSE [fatal |-> FALSE, move |-> row * kNumCols + col]

RowColToMove(row, col) ==
  IF row < 0 \/ col < 0 \/ row * col >= kNumCells
  THEN [fatal |-> TRUE, move |-> 0]
  ELSE [fatal |-> FALSE, move |-> row * kNumCols + col]

PlayerToState(player) ==
  CASE player = 0 -> kBlack
    [] player = 1 -> kWhite

\* BoardAt(row, col) reads board_[row * kNumCols + col] with no range check.
BoardIndex(row, col) == row * kNumCols + col

\* Variant of the loop of CountSteps: an empty cell closes the run as well.
RECURSIVE CountWalkOpen(_, _, _, _, _, _)
CountWalkOpen(board, cell, row, col, dir, count) ==
  IF ~OnBoard(row, col) THEN 0
  ELSE LET at == board[BoardIndex(row, col)] IN
       IF at = cell \/ at = kEmpty THEN count
       ELSE LET nx == GetNext(row, col, dir)
            IN CountWalkOpen(board, cell, nx[1], nx[2], dir, count + 1)

\* The while loop of CountSteps from (row, col), count cells passed so far.
RECURSIVE CountWalk(_, _, _, _, _, _)
CountWalk(board, cell, row, col, dir, count) ==
  IF ~OnBoard(row, col) THEN 0
  ELSE LET at == board[BoardIndex(row, col)] IN
       IF at = cell THEN count
       ELSE IF at = kEmpty THEN 0
       ELSE LET nx == GetNext(row, col, dir)
            IN CountWalk(board, cell, nx[1], nx[2], dir, count + 1)

CountSteps(board, player, move, dir) ==
  LET rc == RowColFromMove(move) IN
  IF rc.fatal THEN [fatal |-> TRUE, count |-> 0]
  ELSE LET nx == GetNext(rc.row, rc.col, dir)
       IN [fatal |-> FALSE,
           count |-> CountWalk(board, PlayerToState(player), nx[1], nx[2], dir, 0)]

\* The direction loop of CanCapture from direction dir on.
RECURSIVE CanCaptureFrom(_, _, _, _)
CanCaptureFrom(board, player, move, dir) ==
  IF dir >= kLast THEN [fatal |-> FALSE, value |-> FALSE]
  ELSE LET c == CountSteps(board, player, move, dir) IN
       IF c.fatal THEN [fatal |-> TRUE, value |-> FALSE]
       ELSE IF c.count # 0 THEN [fatal |-> FALSE, value |-> TRUE]
       ELSE CanCaptureFrom(board, player, move, dir + 1)

CanCapture(board, player, move) ==
  IF board[move] # kEmpty THEN [fatal |-> FALSE, value |-> FALSE]
  ELSE CanCaptureFrom(board, player, move, kUp)

ValidAction(board, player, move) ==
  IF board[move] = kEmpty THEN CanCapture(board, player, move)
  ELSE [fatal |-> FALSE, value |-> FALSE]

\* The cell loop of LegalRegularActions over the cells lo .. hi, in index
\* order: the moves of the lower half, then those of the upper half.
RECURSIVE LegalRegularRange(_, _, _, _)
LegalRegularRange(board, p, lo, hi) ==
  IF lo = hi
  THEN LET v == ValidAction(board, p, lo) IN
       [fatal |-> v.fatal,
        moves |-> IF (~v.fatal) /\ v.value THEN <<lo>> ELSE <<>>]
  ELSE LET mid == (lo + hi) \div 2
           low == LegalRegularRange(board, p, lo, mid)
       IN IF low.fatal THEN low
          ELSE LET high == LegalRegularRange(board, p, mid + 1, hi)
               IN [fatal |-> high.fatal, moves |-> low.moves \o high.moves]

LegalRegularActions(board, p) == LegalRegularRange(board, p, 0, kNumCells - 1)

\* Variant of NoValidActions: only player 0 is asked for regular moves.
NoValidActionsFirstOnly(board) ==
  LET l0 == LegalRegularActions(board, 0) IN
  [fatal |-> l0.fatal, value |-> (~l0.fatal) /\ l0.moves = <<>>]

NoValidActions(board) ==
  LET l0 == LegalRegularActions(board, 0) IN
  IF l0.fatal THEN [fatal |-> TRUE, value |-> FALSE]
  ELSE IF l0.moves # <<>> THEN [fatal |-> FALSE, value |-> FALSE]
  ELSE LET l1 == LegalRegularActions(board, 1) IN
       [fatal |-> l1.fatal, value |-> (~l1.fatal) /\ l1.moves = <<>>]

DiskCount(board, player) ==
  Cardinality({i \in Cells : board[i] = PlayerToState(player)})


(* ---------------------------------------------------------------------- *)
(* Capture and move application.  status is "running" after a normal      *)
(* return, "fatal" after SpielFatalError, "undefined" after an access      *)
(* outside board_ (undefined behaviour).                                   *)
(* ---------------------------------------------------------------------- *)
\* Variant of the step loop of Capture: it stops one cell early.
RECURSIVE CaptureLoopShort(_, _, _, _, _, _, _)
CaptureLoopShort(board, cell, row, col, dir, step, steps) ==
  IF step + 1 >= steps THEN [status |-> "running", board |-> board]
  ELSE IF BoardIndex(row, col) \notin Cells
       THEN [status |-> "undefined", board |-> board]
  ELSE IF board[BoardIndex(row, col)] = kEmpty \/ board[BoardIndex(row, col)] = cell
       THEN [status |-> "fatal", board |-> board]
  ELSE LET to == RowColToMove(row, col) IN
       IF to.fatal THEN [status |-> "fatal", board |-> board]
       ELSE IF to.move \notin Cells THEN [status |-> "undefined", board |-> board]
       ELSE LET nx == GetNext(row, col, dir)
            IN CaptureLoopShort([board EXCEPT ![to.move] = cell], cell,
                                nx[1], nx[2], dir, step + 1, steps)

\* The step loop of Capture at (row, col), steps step .. steps-1 to go.
RECURSIVE CaptureLoop(_, _, _, _, _, _, _)
CaptureLoop(board, cell, row, col, dir, step, steps) ==
  IF step >= steps THEN [status |-> "running", board |-> board]
  ELSE IF BoardIndex(row, col) \notin Cells
       THEN [status |-> "undefined", board |-> board]
  ELSE IF board[BoardIndex(row, col)] = kEmpty \/ board[BoardIndex(row, col)] = cell
       THEN [status |-> "fatal", board |-> board]
  ELSE LET to == RowColToMove(row, col) IN
       IF to.fatal THEN [status |-> "fatal", board |-> board]
       ELSE IF to.move \notin Cells THEN [status |-> "undefined", board |-> board]
       ELSE LET nx == GetNext(row, col, dir)
            IN CaptureLoop([board EXCEPT ![to.move] = cell], cell,
                           nx[1], nx[2], dir, step + 1, steps)

\* Variant of Capture: the walk starts on the cell of the move itself.
CaptureFromMoveCell(board, player, move, dir, steps) ==
  LET rc == RowColFromMove(move) IN
  IF rc.fatal THEN [status |-> "fatal", board |-> board]
  ELSE CaptureLoop(board, PlayerToState(player), rc.row, rc.col, dir, 0, steps)

Capture(board, player, move, dir, steps) ==
  LET rc == RowColFromMove(move) IN
  IF rc.fatal THEN [status |-> "fatal", board |-> board]
  ELSE LET nx == GetNext(rc.row, rc.col, dir)
       IN CaptureLoop(board, PlayerToState(player), nx[1], nx[2], dir, 0, steps)

\* The direction loop of DoApplyAction from direction dir on.
RECURSIVE CaptureDirections(_, _, _, _)
CaptureDirections(board, player, move, dir) ==
  IF dir >= kLast THEN [status |-> "running", board |-> board]
  ELSE LET c == CountSteps(board, player, move, dir) IN
       IF c.fatal THEN [status |-> "fatal", board |-> board]
       ELSE IF c.count > 0
       THEN LET r == Capture(board, player, move, dir, c.count) IN
            IF r.status # "running" THEN r
            ELSE CaptureDirections(r.board, player, move, dir + 1)
       ELSE CaptureDirections(board, player, move, dir + 1)

\* Variant of the end-of-game branch: equal counts go to player 0.
EndOutcomeTieToZero(board) ==
  LET count_zero == DiskCount(board, 0)
      count_one == DiskCount(board, 1)
  IN IF count_zero >= count_one THEN 0
     ELSE IF count_zero < count_one THEN 1
     ELSE kTerminalPlayerId

\* The end-of-game branch of DoApplyAction.
EndOutcome(board) ==
  LET count_zero == DiskCount(board, 0)
      count_one == DiskCount(board, 1)
  IN IF count_zero > count_one THEN 0
     ELSE IF count_zero < count_one THEN 1
     ELSE kTerminalPlayerId

\* A state s is [board, current_player, outcome]; a result adds status.
Result(board, current_player, outcome, st) ==
  [board |-> board, current_player |-> current_player,
   outcome |-> outcome, status |-> st]

\* Variant of the pass branch: a player with a regular move may not pass.
DoPassChecked(s) ==
  IF LegalRegularActions(s.board, s.current_player).moves # <<>>
  THEN Result(s.board, s.current_player, s.outcome, "fatal")
  ELSE Result(s.board, 1 - s.current_player, s.outcome, "running")

\* The pass branch of DoApplyAction.
DoPass(s) == Result(s.board, 1 - s.current_player, s.outcome, "running")

\* Variant of the refusal: the error is reported without ending the call,
\* so the disk is placed and the turn passes on.
RejectedButPlaced(s, move) ==
  Result([s.board EXCEPT ![move] = PlayerToState(s.current_player)],
         1 - s.current_player, s.outcome, "running")

\* Variant of the refusal: the disk is placed before the validity check.
RejectedAfterPlacing(s, move) ==
  Result([s.board EXCEPT ![move] = PlayerToState(s.current_player)],
         s.current_player, s.outcome, "fatal")

\* The branch of DoApplyAction that refuses an invalid move.
Rejected(s, move) == Result(s.board, s.current_player, s.outcome, "fatal")

\* Variant of the placement: the captures are made, the disk is not put down.
PlaceAndCaptureNoDisk(s, move) ==
  CaptureDirections(s.board, s.current_player, move, kUp)

\* Placing the disk and the capture loop of DoApplyAction.
PlaceAndCapture(s, move) ==
  CaptureDirections([s.board EXCEPT ![move] = PlayerToState(s.current_player)],
                    s.current_player, move, kUp)

\* Variant of the end-of-game check: the outcome is never set.
FinishMoveNeverEnds(s, board) ==
  Result(board, 1 - s.current_player, s.outcome, "running")

\* Variant of the end-of-game check: the player is switched in both branches.
FinishMoveAlwaysSwitch(s, board) ==
  LET nv == NoValidActions(board) IN
  IF nv.fatal THEN Result(board, s.current_player, s.outcome, "fatal")
  ELSE IF nv.value
  THEN Result(board, 1 - s.current_player, EndOutcome(board), "running")
  ELSE Result(board, 1 - s.current_player, s.outcome, "running")

\* The end-of-game check of DoApplyAction on the board after the captures.
FinishMove(s, board) ==
  LET nv == NoValidActions(board) IN
  IF nv.fatal THEN Result(board, s.current_player, s.outcome, "fatal")
  ELSE IF nv.value
  THEN Result(board, s.current_player, EndOutcome(board), "running")
  ELSE Result(board, 1 - s.current_player, s.outcome, "running")

DoApplyAction(s, move) ==
  IF move = kPassMove THEN DoPass(s)
  ELSE IF move \notin Cells
  THEN Result(s.board, s.current_player, s.outcome, "undefined")
  ELSE LET v == ValidAction(s.board, s.current_player, move) IN
  IF v.fatal \/ ~v.value THEN Rejected(s, move)
  ELSE LET cap == PlaceAndCapture(s, move) IN
       IF cap.status # "running"
       THEN Result(cap.board, s.current_player, s.outcome, cap.status)
       ELSE FinishMove(s, cap.board)

(* ---------------------------------------------------------------------- *)
(* Queries.                                                                *)
(* ---------------------------------------------------------------------- *)
IsTerminalOf(outcome) == outcome # kInvalidPlayer

\* Variant of LegalActions: Pass is added whether or not moves is empty.
LegalActionsAlwaysPass(board, player, outcome) ==
  IF IsTerminalOf(outcome) THEN <<>>
  ELSE Append(LegalRegularActions(board, player).moves, kPassMove)

\* The list LegalActions() returns (fatal never set when every cell index is
\* in range, which the loop bounds of LegalRegularActions ensure).
LegalActionsOf(board, player, outcome) ==
  IF IsTerminalOf(outcome) THEN <<>>
  ELSE LET moves == LegalRegularActions(board, player).moves
       IN IF moves = <<>> THEN <<kPassMove>> ELSE moves

ReturnsOf(outcome) ==
  IF outcome = 0 THEN <<1, -1>>
  ELSE IF outcome = 1 THEN <<-1, 1>>
  ELSE <<0, 0>>

(* ---------------------------------------------------------------------- *)
(* Observations: the tensor and the text rendering of the board.           *)
(* ---------------------------------------------------------------------- *)
kNumPlayers == 2
kCellStates == 3

\* TensorView<2>(values, {kCellStates, kNumCells}, true): the buffer gets
\* kCellStates * kNumCells entries, all reset to 0; entry {ch, cell}.
ZeroTensor == [x \in (0 .. (kCellStates - 1)) \X Cells |-> 0]

\* Variant of the channel choice: player 1 is given the view of player 0.
ObservationChannelUnreversed(value, player) == value

\* The channel ObservationTensor sets to 1.0 for a cell holding value.
ObservationChannel(value, player) ==
  IF player = 1
  THEN IF value = 2 THEN 1
       ELSE IF value = 1 THEN 2
       ELSE 0
  ELSE value

\* The cell loop writes one entry per cell into the zeroed buffer.
ObservationTensor(board, player) ==
  IF player < 0 \/ player >= kNumPlayers
  THEN [fatal |-> TRUE, values |-> ZeroTensor]
  ELSE [fatal |-> FALSE,
        values |-> [x \in DOMAIN ZeroTensor |->
                      IF x[1] = ObservationChannel(board[x[2]], player)
                      THEN 1 ELSE ZeroTensor[x]]]

\* Variant of StateToString: the glyphs do not depend on the player.
StateToStringFixed(player, state) ==
  CASE state = kEmpty -> "-"
    [] state = kWhite -> "o"
    [] state = kBlack -> "x"

StateToString(player, state) ==
  CASE state = kEmpty -> "-"
    [] state = kWhite -> IF player = 0 THEN "o" ELSE "x"
    [] state = kBlack -> IF player = 0 THEN "x" ELSE "o"

\* A string is the sequence of its characters.
col_labels ==
  <<" ", " ", "a", " ", "b", " ", "c", " ", "d", " ", "e", " ", "f", " ", "g", " ",
    "h", " ", " ">>

\* static_cast<char>('1' + r)
RowLabel(r) == <<"1", "2", "3", "4", "5", "6", "7", "8">>[r + 1]

\* The column loop of ToStringForPlayer from column c on.
RECURSIVE RowCells(_, _, _, _)
RowCells(board, player, r, c) ==
  IF c >= kNumCols THEN <<>>
  ELSE <<StateToString(player, board[BoardIndex(r, c)]), " ">>
       \o RowCells(board, player, r, c + 1)

\* The row loop of ToStringForPlayer from row r on.
RECURSIVE Rows(_, _, _)
Rows(board, player, r) ==
  IF r >= kNumRows THEN <<>>
  ELSE <<RowLabel(r), " ">> \o RowCells(board, player, r, 0)
       \o <<RowLabel(r), "\n">> \o Rows(board, player, r + 1)

ToStringForPlayer(board, player) ==
  col_labels \o <<"\n">> \o Rows(board, player, 0) \o col_labels

(* ---------------------------------------------------------------------- *)
(* The caller.  It applies actions to one state: it may follow one of the  *)
(* recorded games below move by move, and may leave them for at most      *)
(* MaxDev actions of its own choice (any cell index, Pass, or an index     *)
(* just outside the board), within the first DevHorizon actions or once    *)
(* the game is over.                                                       *)
(* ---------------------------------------------------------------------- *)
\* f5 d6 c5 f4 e3 f6 g5 e6 e7: Black captures every White disk.
GameBlackWins == <<37, 43, 34, 29, 20, 45, 38, 44, 52, 64, 64>>
\* A game White wins, with no empty board.
GameWhiteWins == <<37, 43, 18, 38, 46, 54, 45, 9, 44, 29, 42, 41, 64>>
\* Eight moves after which White has no regular move and must pass.
GameForcedPass == <<19, 18, 37, 11, 3, 4, 17, 2, 64, 25>>

\* A game played to the full board that ends in a draw, 32 disks each,
\* with one forced pass near the end.
GameDraw ==
  <<26, 34, 44, 18, 41, 29, 9, 53, 22, 19, 25, 37, 11, 15, 62, 42, 46, 21, 45,
    40, 43, 24, 48, 54, 63, 12, 16, 50, 32, 55, 47, 10, 20, 51, 13, 0, 58, 5,
    3, 1, 17, 4, 6, 59, 23, 57, 7, 14, 8, 56, 52, 2, 49, 33, 64, 61, 60, 38,
    30, 39, 31, 64>>

Games == <<GameBlackWins, GameWhiteWins, GameForcedPass, GameDraw>>

IsPrefix(h, g) == Len(h) <= Len(g) /\ SubSeq(g, 1, Len(h)) = h
OnGame(h) == \E i \in 1 .. Len(Games) : IsPrefix(h, Games[i])
Actions == (-1) .. (kPassMove + 1)

(* ---------------------------------------------------------------------- *)
(* State.                                                                  *)
(* ---------------------------------------------------------------------- *)
VARIABLES
  board_,           \* std::array<CellState, kNumCells>
  current_player_,  \* Player to move
  outcome_,         \* kInvalidPlayer until the game ends
  history_,         \* actions applied so far (State::history_)
  status,           \* "running", "fatal" or "undefined"
  deviations,       \* actions the caller applied after leaving the recorded games
  prev,             \* state at the entry of the last ApplyAction, and its action
  clone,            \* the state object Clone() returned, once there is one
  call              \* the last call made beside a clone, or of a conversion

vars == <<board_, current_player_, outcome_, history_, status, deviations, prev,
          clone, call>>

\* Variant of the constructor: the two colours exchanged.
InitialBoardSwapped ==
  [i \in Cells |->
     IF i = 27 \/ i = 36 THEN kBlack
     ELSE IF i = 28 \/ i = 35 THEN kWhite
     ELSE kEmpty]

InitialBoard ==
  [i \in Cells |->
     IF i = 27 \/ i = 36 THEN kWhite
     ELSE IF i = 28 \/ i = 35 THEN kBlack
     ELSE kEmpty]

\* No Clone() yet: the fields of the record are those of a state object.
NoClone ==
  [made |-> FALSE, shares |-> FALSE, board |-> InitialBoard, current_player |-> 0,
   outcome |-> kInvalidPlayer, history |-> <<>>]

\* other: the fields of the object the call was not made on, at its entry.
NoCall == [op |-> "none"]

Init ==
  /\ board_ = InitialBoard
  /\ current_player_ = 0
  /\ outcome_ = kInvalidPlayer
  /\ history_ = <<>>
  /\ status = "running"
  /\ deviations = 0
  /\ prev = [board |-> InitialBoard, current_player |-> 0,
             outcome |-> kInvalidPlayer, move |-> kPassMove, applied |-> FALSE]
  /\ clone = NoClone
  /\ call = NoCall

Cur == [board |-> board_, current_player |-> current_player_, outcome |-> outcome_]

\* The fields of the object Clone() returned.
CloneCur ==
  [board |-> clone.board, current_player |-> clone.current_player,
   outcome |-> clone.outcome]

\* A clone that would share its storage with s follows what is written to s.
WrittenThrough(c, r, h) ==
  IF c.made /\ c.shares
  THEN [c EXCEPT !.board = r.board, !.current_player = r.current_player,
                 !.outcome = r.outcome, !.history = h]
  ELSE c

\* State::ApplyAction on the original object: DoApplyAction, then the action
\* joins the history.
Apply(move) ==
  /\ \E r \in {DoApplyAction(Cur, move)} :
     /\ board_' = r.board
     /\ current_player_' = r.current_player
     /\ outcome_' = r.outcome
     /\ status' = r.status
     /\ history_' = IF r.status = "running" THEN Append(history_, move) ELSE history_
     /\ clone' = WrittenThrough(clone, r, history_')
  /\ prev' = [board |-> board_, current_player |-> current_player_,
              outcome |-> outcome_, move |-> move, applied |-> TRUE]
  /\ call' = IF clone.made
             THEN [op |-> "ApplyAction", move |-> move, other |-> CloneCur]
             ELSE call

\* A caller that follows the recorded games and leaves them a bounded number
\* of times.
ApplyAction(move) ==
  /\ status = "running"
  /\ LET follows == deviations = 0 /\ OnGame(Append(history_, move)) IN
     /\ \/ follows
        \/ /\ deviations < MaxDev
           /\ Len(history_) < DevHorizon + deviations \/ outcome_ # kInvalidPlayer
     /\ deviations' = IF follows THEN 0 ELSE deviations + 1
  /\ Apply(move)

Next == \E move \in Actions : ApplyAction(move)

Spec == Init /\ [][Next]_vars

(* ---------------------------------------------------------------------- *)
(* Clone(): a caller that copies the state once and plays on both objects. *)
(* ---------------------------------------------------------------------- *)
\* Actions the caller applies to each of the two objects.
MaxCloneDepth == 3

\* Variant of Clone(): the copy keeps using the storage of the original.
CloneShared(s, h) ==
  [made |-> TRUE, shares |-> TRUE, board |-> s.board,
   current_player |-> s.current_player, outcome |-> s.outcome, history |-> h]

\* OthelloState::Clone: a new object copy-constructed from this one; the
\* board is a std::array member, copied by value.
CloneOf(s, h) ==
  [made |-> TRUE, shares |-> FALSE, board |-> s.board,
   current_player |-> s.current_player, outcome |-> s.outcome, history |-> h]

CloneState ==
  /\ status = "running"
  /\ ~clone.made
  /\ clone' = CloneOf(Cur, history_)
  /\ call' = [op |-> "Clone", other |-> Cur]
  /\ UNCHANGED <<board_, current_player_, outcome_, history_, status, deviations, prev>>

\* ApplyAction of the first or the last move of LegalActions() on the original.
ApplyOnOriginal ==
  /\ status = "running"
  /\ Len(history_) < MaxCloneDepth
  /\ \E la \in {LegalActionsOf(board_, current_player_, outcome_)} :
       \E i \in {1, Len(la)} : i \in 1 .. Len(la) /\ Apply(la[i])
  /\ UNCHANGED deviations

\* ApplyAction of move on the object Clone() returned.
ApplyClone(move) ==
  /\ \E r \in {DoApplyAction(CloneCur, move)} :
       /\ clone' = [clone EXCEPT !.board = r.board,
                                 !.current_player = r.current_player,
                                 !.outcome = r.outcome,
                                 !.history = IF r.status = "running"
                                             THEN Append(@, move) ELSE @]
       /\ status' = r.status
       /\ IF clone.shares
          THEN /\ board_' = r.board
               /\ current_player_' = r.current_player
               /\ outcome_' = r.outcome
               /\ history_' = clone'.history
          ELSE UNCHANGED <<board_, current_player_, outcome_, history_>>
  /\ call' = [op |-> "ApplyActionOnClone", move |-> move, other |-> Cur]

\* ApplyAction of the first or the last move of its LegalActions() on the clone.
ApplyOnClone ==
  /\ status = "running"
  /\ clone.made
  /\ Len(clone.history) < MaxCloneDepth
  /\ \E la \in {LegalActionsOf(clone.board, clone.current_player, clone.outcome)} :
       \E i \in {1, Len(la)} : i \in 1 .. Len(la) /\ ApplyClone(la[i])
  /\ UNCHANGED <<deviations, prev>>

NextClone == CloneState \/ ApplyOnOriginal \/ ApplyOnClone

SpecClone == Init /\ [][NextClone]_vars


(* ---------------------------------------------------------------------- *)
(* Legal play: a caller that applies only actions LegalActions() returns,  *)
(* any of them for the first FreeMoves actions and the first one after     *)
(* that, and keeps playing while there is one.                             *)
(* ---------------------------------------------------------------------- *)
FreeMoves == 2

PlayFree ==
  /\ status = "running"
  /\ Len(history_) < FreeMoves
  /\ \E la \in {LegalActionsOf(board_, current_player_, outcome_)} :
       \E i \in 1 .. Len(la) : Apply(la[i])
  /\ UNCHANGED deviations

PlayFirst ==
  /\ status = "running"
  /\ Len(history_) >= FreeMoves
  /\ \E la \in {LegalActionsOf(board_, current_player_, outcome_)} :
       la # <<>> /\ Apply(la[1])
  /\ UNCHANGED deviations

NextLegal == PlayFree \/ PlayFirst

\* A call of ApplyAction returns in a game that is not over: an action joins
\* the history.
Played ==
  /\ status = "running"
  /\ outcome_ = kInvalidPlayer
  /\ history_' \in {Append(history_, move) : move \in 0 .. kPassMove}

\* The caller applies an action at each step: it does not stop while the game
\* is not over.
SpecLegal == Init /\ [][NextLegal]_vars /\ WF_history_(Played)

(* ---------------------------------------------------------------------- *)
(* Coordinate conversions: a caller that converts moves and coordinates    *)
(* taken from the board and from a margin around it.                       *)
(* ---------------------------------------------------------------------- *)
CoordMargin == 2

CallRowColFromMove(move) ==
  /\ status = "running"
  /\ \E r \in {RowColFromMove(move)} :
       /\ call' = [op |-> "RowColFromMove", move |-> move, result |-> r]
       /\ status' = IF r.fatal THEN "fatal" ELSE status
  /\ UNCHANGED <<board_, current_player_, outcome_, history_, deviations, prev, clone>>

CallRowColToMove(row, col) ==
  /\ status = "running"
  /\ \E r \in {RowColToMove(row, col)} :
       /\ call' = [op |-> "RowColToMove", row |-> row, col |-> col, result |-> r]
       /\ status' = IF r.fatal THEN "fatal" ELSE status
  /\ UNCHANGED <<board_, current_player_, outcome_, history_, deviations, prev, clone>>

NextCoords ==
  \/ \E move \in (-CoordMargin) .. (kNumCells - 1 + CoordMargin) :
       CallRowColFromMove(move)
  \/ \E row \in (-CoordMargin) .. (kNumRows - 1 + CoordMargin) :
       \E col \in (-CoordMargin) .. (kNumCols - 1 + CoordMargin) :
         CallRowColToMove(row, col)

SpecCoords == Init /\ [][NextCoords]_vars

(* ---------------------------------------------------------------------- *)
(* Vocabulary of the properties.                                           *)
(* ---------------------------------------------------------------------- *)
Players == {0, 1}
Directions == kUp .. (kLast - 1)
\* The last ApplyAction returned normally.
Returned == prev.applied /\ status = "running"
SeqToSet(q) == {q[i] : i \in 1 .. Len(q)}
Ascending(q) == \A i \in 1 .. (Len(q) - 1) : q[i] < q[i + 1]
\* Row and column steps of the eight directions, indexed by direction + 1.
Delta == << <<-1, 0>>, <<1, 0>>, <<0, -1>>, <<0, 1>>,
            <<-1, 1>>, <<-1, -1>>, <<1, 1>>, <<1, -1>> >>
\* The j-th cell after move in direction dir, as <<row, col>>.
RayCell(move, dir, j) ==
  << (move \div kNumCols) + j * Delta[dir + 1][1],
     (move % kNumCols) + j * Delta[dir + 1][2] >>
Captures(board, player, move) ==
  \E dir \in Directions : CountSteps(board, player, move, dir).count # 0
HasRegularMove(board, player) ==
  \E c \in Cells : board[c] = kEmpty /\ Captures(board, player, c)
BothStuck(board) == \A p \in Players : ~HasRegularMove(board, p)
\* Regular moves applied so far.
RegularMoves == Cardinality({i \in 1 .. Len(history_) : history_[i] # kPassMove})

(* ---------------------------------------------------------------------- *)
(* C1.  In every reachable state every non-Pass move of LegalActions()     *)
(* targets an empty cell, has a direction with a non-zero capture count    *)
(* for the current player, and ApplyAction of it returns normally.         *)
(* ---------------------------------------------------------------------- *)
C1_LegalMovesApply ==
  status = "running" =>
    LET la == LegalActionsOf(board_, current_player_, outcome_) IN
    \A i \in 1 .. Len(la) :
      la[i] # kPassMove =>
        /\ la[i] \in Cells
        /\ board_[la[i]] = kEmpty
        /\ Captures(board_, current_player_, la[i])
        /\ DoApplyAction(Cur, la[i]).status = "running"

\* A move taken from LegalActions() was applied and captured in two directions.
C1_Witness ==
  /\ Returned
  /\ prev.move \in SeqToSet(LegalActionsOf(prev.board, prev.current_player, prev.outcome))
  /\ prev.move # kPassMove
  /\ Cardinality({d \in Directions :
        CountSteps(prev.board, prev.current_player, prev.move, d).count # 0}) >= 2

(* ---------------------------------------------------------------------- *)
(* C2.  A regular move that leaves both players without a regular move     *)
(* sets the outcome by the disk counts in the same call; IsTerminal() is   *)
(* then true and Returns() is {1,-1}, {-1,1} or {0,0}.                     *)
(* ---------------------------------------------------------------------- *)
C2_TerminationRule ==
  (Returned /\ prev.move \in Cells /\ BothStuck(board_)) =>
    LET n0 == Cardinality({c \in Cells : board_[c] = kBlack})
        n1 == Cardinality({c \in Cells : board_[c] = kWhite})
    IN /\ IsTerminalOf(outcome_)
       /\ n0 > n1 => (outcome_ = 0 /\ ReturnsOf(outcome_) = <<1, -1>>)
       /\ n0 < n1 => (outcome_ = 1 /\ ReturnsOf(outcome_) = <<-1, 1>>)
       /\ n0 = n1 => (outcome_ = kTerminalPlayerId /\ ReturnsOf(outcome_) = <<0, 0>>)

\* A regular move ended a game in a draw.
C2_Witness ==
  /\ Returned /\ prev.move \in Cells /\ BothStuck(board_)
  /\ ~IsTerminalOf(prev.outcome)
  /\ outcome_ = kTerminalPlayerId
  /\ ReturnsOf(outcome_) = <<0, 0>>

(* ---------------------------------------------------------------------- *)
(* C3.  Once IsTerminal() is true, every further ApplyAction that returns  *)
(* leaves IsTerminal() true and the outcome and the board as they were.    *)
(* ---------------------------------------------------------------------- *)
C3_OutcomePermanent ==
  (Returned /\ IsTerminalOf(prev.outcome)) =>
    /\ IsTerminalOf(outcome_)
    /\ outcome_ = prev.outcome
    /\ board_ = prev.board

\* Two actions were applied after the end of the game.
C3_Witness ==
  /\ Returned /\ IsTerminalOf(prev.outcome)
  /\ Len(history_) >= 2
  /\ history_[Len(history_) - 1] = kPassMove

(* ---------------------------------------------------------------------- *)
(* C4.  LegalActions() is empty in a terminal state; otherwise it is the   *)
(* empty cells on which CanCapture holds for the current player, in        *)
(* ascending order, without duplicates and without Pass, when there is     *)
(* one, and exactly [Pass] when there is none.                             *)
(* ---------------------------------------------------------------------- *)
C4_LegalActionsResult ==
  status = "running" =>
    LET la == LegalActionsOf(board_, current_player_, outcome_)
        S == {c \in Cells : board_[c] = kEmpty
                            /\ CanCapture(board_, current_player_, c).value}
    IN IF IsTerminalOf(outcome_) THEN la = <<>>
       ELSE IF S # {}
       THEN /\ SeqToSet(la) = S
            /\ Ascending(la)
            /\ Len(la) = Cardinality(S)
            /\ kPassMove \notin SeqToSet(la)
       ELSE la = <<kPassMove>>

\* A running game in which the player to move can only pass.
C4_Witness ==
  /\ Returned /\ prev.move \in Cells
  /\ ~IsTerminalOf(outcome_)
  /\ LegalActionsOf(board_, current_player_, outcome_) = <<kPassMove>>

(* ---------------------------------------------------------------------- *)
(* C5.  Pass switches the current player and leaves the board and the      *)
(* outcome unchanged; it is accepted without a legality check, also when   *)
(* the player has regular moves, and never ends the game.                  *)
(* ---------------------------------------------------------------------- *)
C5_PassEffect ==
  (prev.applied /\ prev.move = kPassMove) =>
    /\ status = "running"
    /\ current_player_ = 1 - prev.current_player
    /\ board_ = prev.board
    /\ outcome_ = prev.outcome
    /\ IsTerminalOf(outcome_) = IsTerminalOf(prev.outcome)

\* A player with regular moves passed while the game was running.
C5_Witness ==
  /\ Returned /\ prev.move = kPassMove
  /\ ~IsTerminalOf(prev.outcome)
  /\ HasRegularMove(prev.board, prev.current_player)

(* ---------------------------------------------------------------------- *)
(* C6.  After a valid regular move by p at m the board is the pre-move     *)
(* board with m, and for each direction the k cells after m (k the         *)
(* capture count on the pre-move board), set to p's colour; every other    *)
(* cell keeps its value.                                                   *)
(* ---------------------------------------------------------------------- *)
C6_RayIndex(move, dir, j) ==
  RayCell(move, dir, j)[1] * kNumCols + RayCell(move, dir, j)[2]

\* The cells the counts on the pre-move board designate.
C6_Flipped ==
  UNION {{C6_RayIndex(prev.move, dir, j) :
            j \in 1 .. CountSteps(prev.board, prev.current_player, prev.move, dir).count} :
         dir \in Directions}

C6_CaptureCorrect ==
  (Returned /\ prev.move \in Cells) =>
    LET colour == IF prev.current_player = 0 THEN kBlack ELSE kWhite
        flipped == C6_Flipped
    IN /\ \A dir \in Directions :
            \A j \in 1 .. CountSteps(prev.board, prev.current_player, prev.move, dir).count :
              OnBoard(RayCell(prev.move, dir, j)[1], RayCell(prev.move, dir, j)[2])
       /\ board_ = [c \in Cells |->
                      IF c = prev.move \/ c \in flipped THEN colour
                      ELSE prev.board[c]]

\* A move that flipped at least three disks, in more than one direction.
C6_Witness ==
  /\ Returned /\ prev.move \in Cells
  /\ LET flipped == C6_Flipped IN
     /\ Cardinality(flipped) >= 3
     /\ \A c \in flipped : board_[c] # prev.board[c] /\ prev.board[c] # kEmpty
  /\ Cardinality({d \in Directions :
        CountSteps(prev.board, prev.current_player, prev.move, d).count # 0}) >= 2

(* ---------------------------------------------------------------------- *)
(* C7.  After a regular move that does not end the game the current        *)
(* player is the mover's opponent; after one that ends the game the        *)
(* current player stays the mover.                                         *)
(* ---------------------------------------------------------------------- *)
C7_TurnAlternation ==
  (Returned /\ prev.move \in Cells) =>
    IF IsTerminalOf(outcome_)
    THEN current_player_ = prev.current_player
    ELSE current_player_ = 1 - prev.current_player

\* White made the move that ended the game and is still the current player.
C7_Witness ==
  /\ Returned /\ prev.move \in Cells
  /\ ~IsTerminalOf(prev.outcome) /\ IsTerminalOf(outcome_)
  /\ prev.current_player = 1 /\ current_player_ = 1

(* ---------------------------------------------------------------------- *)
(* C8.  ApplyAction of a cell index in [0,64) that is occupied, or empty   *)
(* but capturing nothing for the current player, fails fatally before any  *)
(* change to the board, the current player or the outcome.                 *)
(* ---------------------------------------------------------------------- *)
C8_Illegal ==
  /\ prev.applied /\ prev.move \in Cells
  /\ \/ prev.board[prev.move] # kEmpty
     \/ ~Captures(prev.board, prev.current_player, prev.move)

C8_IllegalMoveFails ==
  C8_Illegal =>
    /\ status = "fatal"
    /\ board_ = prev.board
    /\ current_player_ = prev.current_player
    /\ outcome_ = prev.outcome

\* An empty cell next to a disk that captures nothing was refused.
C8_Witness ==
  /\ C8_Illegal /\ status = "fatal"
  /\ prev.board[prev.move] = kEmpty
  /\ \E dir \in Directions :
       /\ OnBoard(RayCell(prev.move, dir, 1)[1], RayCell(prev.move, dir, 1)[2])
       /\ prev.board[RayCell(prev.move, dir, 1)[1] * kNumCols
                     + RayCell(prev.move, dir, 1)[2]] # kEmpty

(* ---------------------------------------------------------------------- *)
(* C9.  A freshly created state has 2 black and 2 white disks, white on    *)
(* 27 and 36, black on 28 and 35, the 60 other cells empty, current        *)
(* player 0, and is not terminal.                                          *)
(* ---------------------------------------------------------------------- *)
C9_InitialState ==
  (~prev.applied) =>
    /\ Cardinality({c \in Cells : board_[c] = kBlack}) = 2
    /\ Cardinality({c \in Cells : board_[c] = kWhite}) = 2
    /\ Cardinality({c \in Cells : board_[c] = kEmpty}) = 60
    /\ board_[27] = kWhite /\ board_[36] = kWhite
    /\ board_[28] = kBlack /\ board_[35] = kBlack
    /\ DiskCount(board_, 0) = 2 /\ DiskCount(board_, 1) = 2
    /\ current_player_ = 0
    /\ ~IsTerminalOf(outcome_)

\* The state right after construction.
C9_Witness == ~prev.applied /\ history_ = <<>> /\ status = "running"

(* ---------------------------------------------------------------------- *)
(* C10.  From the starting position, d3 (cell 19) is legal for player 0,   *)
(* captures exactly one disk and yields 4 black disks, 1 white disk, a     *)
(* non-terminal state and current player 1.                                *)
(* ---------------------------------------------------------------------- *)
C10_OpeningD3 ==
  /\ (~prev.applied) =>
        19 \in SeqToSet(LegalActionsOf(board_, current_player_, outcome_))
  /\ (prev.applied /\ prev.move = 19 /\ prev.board = InitialBoard
      /\ prev.current_player = 0 /\ prev.outcome = kInvalidPlayer) =>
        /\ status = "running"
        /\ Cardinality({c \in Cells : c # 19 /\ board_[c] # prev.board[c]}) = 1
        /\ DiskCount(board_, 0) = 4
        /\ DiskCount(board_, 1) = 1
        /\ ~IsTerminalOf(outcome_)
        /\ current_player_ = 1

\* d3 was played from the starting position.
C10_Witness ==
  /\ Returned /\ history_ = <<19>> /\ prev.board = InitialBoard
  /\ prev.current_player = 0

(* ---------------------------------------------------------------------- *)
(* C11.  Right after Clone() the clone equals the original in board,       *)
(* current player and outcome; from then on an ApplyAction on the original *)
(* leaves the clone's board, current player and outcome unchanged, and an  *)
(* ApplyAction on the clone leaves the original's unchanged.               *)
(* ---------------------------------------------------------------------- *)
C11_CloneIndependence ==
  clone.made =>
    /\ call.op = "Clone" => (CloneCur = Cur /\ clone.history = history_)
    /\ call.op = "ApplyAction" => CloneCur = call.other
    /\ call.op = "ApplyActionOnClone" => Cur = call.other

\* Both objects were played on after Clone() and now hold different boards.
C11_Witness ==
  /\ clone.made /\ status = "running"
  /\ call.op = "ApplyAction"
  /\ Len(clone.history) = MaxCloneDepth
  /\ Len(history_) = MaxCloneDepth
  /\ clone.history[1] = history_[1]
  /\ clone.board # board_
  /\ clone.current_player = current_player_

(* ---------------------------------------------------------------------- *)
(* C12.  ObservationTensor(player) is one-hot over the three channels for  *)
(* every cell, for both players: channel 0 is set exactly for an empty     *)
(* cell, channel 1 exactly for a cell holding the observing player's own   *)
(* colour, channel 2 exactly for a cell holding the opponent's colour.     *)
(* ---------------------------------------------------------------------- *)
C12_TensorOneHot ==
  status = "running" =>
    \A player \in Players :
      LET t == ObservationTensor(board_, player) IN
      /\ ~t.fatal
      /\ DOMAIN t.values = (0 .. 2) \X Cells
      /\ \A cell \in Cells :
           /\ \A ch \in 0 .. 2 : t.values[<<ch, cell>>] \in {0, 1}
           /\ Cardinality({ch \in 0 .. 2 : t.values[<<ch, cell>>] = 1}) = 1
           /\ t.values[<<0, cell>>] = 1 <=> board_[cell] = kEmpty
           /\ t.values[<<1, cell>>] = 1 <=> board_[cell] = PlayerToState(player)
           /\ t.values[<<2, cell>>] = 1 <=> board_[cell] = PlayerToState(1 - player)

\* White has just moved: its disk is channel 2 for player 0, channel 1 for
\* player 1, and the board holds disks of both colours and empty cells.
C12_Witness ==
  /\ Returned /\ prev.move \in Cells /\ prev.current_player = 1
  /\ ObservationTensor(board_, 0).values[<<2, prev.move>>] = 1
  /\ ObservationTensor(board_, 1).values[<<1, prev.move>>] = 1
  /\ \E c \in Cells : board_[c] = kBlack
  /\ \E c \in Cells : board_[c] = kEmpty

(* ---------------------------------------------------------------------- *)
(* C13.  The rendering for player 1 is the rendering for player 0 with     *)
(* "x" and "o" exchanged at every position and every other character,      *)
(* "-" included, unchanged; the glyph of each cell stays at the same       *)
(* position; player 0 sees Black as "x", player 1 sees White as "x".       *)
(* ---------------------------------------------------------------------- *)
C13_Swap(ch) == IF ch = "x" THEN "o" ELSE IF ch = "o" THEN "x" ELSE ch

\* Position of the glyph of a cell in the rendering: a line has 20 characters.
C13_GlyphAt(cell) == 20 + 20 * (cell \div kNumCols) + 2 + 2 * (cell % kNumCols) + 1

C13_RenderingSymmetry ==
  status = "running" =>
    LET s0 == ToStringForPlayer(board_, 0)
        s1 == ToStringForPlayer(board_, 1)
    IN /\ Len(s0) = Len(s1)
       /\ \A i \in 1 .. Len(s0) : s1[i] = C13_Swap(s0[i])
       /\ \A cell \in Cells :
            /\ s0[C13_GlyphAt(cell)] = "x" <=> board_[cell] = kBlack
            /\ s1[C13_GlyphAt(cell)] = "x" <=> board_[cell] = kWhite
            /\ s0[C13_GlyphAt(cell)] = "-" <=> board_[cell] = kEmpty
            /\ s1[C13_GlyphAt(cell)] = "-" <=> board_[cell] = kEmpty
            /\ s0[C13_GlyphAt(cell)] \in {"x", "o", "-"}

\* Black has just moved to a cell: "x" for player 0 and "o" for player 1 there,
\* and the two renderings differ in more than four positions.
C13_Witness ==
  /\ Returned /\ prev.move \in Cells /\ prev.current_player = 0
  /\ LET s0 == ToStringForPlayer(board_, 0)
         s1 == ToStringForPlayer(board_, 1)
     IN /\ s0[C13_GlyphAt(prev.move)] = "x"
        /\ s1[C13_GlyphAt(prev.move)] = "o"
        /\ Cardinality({i \in 1 .. Len(s0) : s0[i] # s1[i]}) > 4

(* ---------------------------------------------------------------------- *)
(* C14.  In every reachable state IsTerminal() is true exactly when both   *)
(* players have no regular move; so no non-terminal state has both players *)
(* without a regular move, and a Pass taken from LegalActions() is never   *)
(* followed by a state whose LegalActions() is again [Pass].               *)
(* ---------------------------------------------------------------------- *)
C14_TerminalIffBothStuck ==
  status = "running" =>
    /\ IsTerminalOf(outcome_) <=> BothStuck(board_)
    /\ (/\ prev.applied /\ prev.move = kPassMove
        /\ LegalActionsOf(prev.board, prev.current_player, prev.outcome)
             = <<kPassMove>>) =>
          /\ HasRegularMove(board_, current_player_)
          /\ LegalActionsOf(board_, current_player_, outcome_) # <<>>
          /\ kPassMove \notin SeqToSet(LegalActionsOf(board_, current_player_, outcome_))

\* A player whose only legal action was Pass passed; the opponent can move.
C14_Witness ==
  /\ Returned /\ prev.move = kPassMove
  /\ LegalActionsOf(prev.board, prev.current_player, prev.outcome) = <<kPassMove>>
  /\ ~IsTerminalOf(outcome_)
  /\ ~HasRegularMove(board_, 1 - current_player_)
  /\ HasRegularMove(board_, current_player_)

(* ---------------------------------------------------------------------- *)
(* C16.  A valid regular move raises the total number of disks by exactly  *)
(* 1, the mover's count by 1 plus the flipped disks (at least 2 in all)    *)
(* and lowers the opponent's count by the flipped disks (at least 1); no   *)
(* occupied cell ever becomes empty; and in every reachable state          *)
(* DiskCount(0) + DiskCount(1) is 4 plus the number of regular moves       *)
(* applied so far.                                                         *)
(* ---------------------------------------------------------------------- *)
C16_Disks(board, colour) == Cardinality({c \in Cells : board[c] = colour})

C16_DiskCounts ==
  /\ (Returned /\ prev.move \in Cells) =>
       LET mine == PlayerToState(prev.current_player)
           theirs == PlayerToState(1 - prev.current_player)
           flipped == Cardinality({c \in Cells : /\ c # prev.move
                                                 /\ prev.board[c] = theirs
                                                 /\ board_[c] = mine})
       IN /\ flipped >= 1
          /\ C16_Disks(board_, mine) = C16_Disks(prev.board, mine) + 1 + flipped
          /\ C16_Disks(board_, theirs) = C16_Disks(prev.board, theirs) - flipped
          /\ C16_Disks(board_, mine) + C16_Disks(board_, theirs)
               = C16_Disks(prev.board, mine) + C16_Disks(prev.board, theirs) + 1
  /\ prev.applied =>
       \A c \in Cells : prev.board[c] # kEmpty => board_[c] # kEmpty
  /\ status = "running" =>
       DiskCount(board_, 0) + DiskCount(board_, 1) = 4 + RegularMoves

\* The last cell of the board was filled: 60 regular moves, 64 disks.
C16_Witness ==
  /\ Returned /\ prev.move \in Cells
  /\ RegularMoves = 60
  /\ DiskCount(board_, 0) + DiskCount(board_, 1) = kNumCells
  /\ \E i \in 1 .. Len(history_) : history_[i] = kPassMove

(* ---------------------------------------------------------------------- *)
(* C15.  Every play from the initial state that applies at each step an    *)
(* action LegalActions() returns reaches a terminal state, after at most   *)
(* 60 regular moves (and no more passes than regular moves).               *)
(* ---------------------------------------------------------------------- *)
C15_PlayTerminates ==
  /\ <>(status = "running" /\ IsTerminalOf(outcome_))
  /\ [](/\ status = "running"
        /\ RegularMoves <= kNumCells - 4
        /\ Len(history_) <= 2 * RegularMoves
        /\ ~IsTerminalOf(outcome_) =>
             LegalActionsOf(board_, current_player_, outcome_) # <<>>)

\* A play of legal actions ended before the board was full, after a pass.
C15_Witness ==
  /\ Returned /\ IsTerminalOf(outcome_) /\ ~IsTerminalOf(prev.outcome)
  /\ RegularMoves < kNumCells - 4
  /\ \E i \in 1 .. Len(history_) : history_[i] = kPassMove
  /\ LegalActionsOf(board_, current_player_, outcome_) = <<>>

(* ---------------------------------------------------------------------- *)
(* C17.  CountSteps(player, move, dir) returns k > 0 exactly when the k    *)
(* cells following move in direction dir are on the board and hold the     *)
(* opponent's colour and the (k+1)-th cell is on the board and holds the   *)
(* player's colour; in every other case it returns 0.                      *)
(* ---------------------------------------------------------------------- *)
C17_Colour(board, move, dir, j) ==
  board[RayCell(move, dir, j)[1] * kNumCols + RayCell(move, dir, j)[2]]

\* The n cells after move hold the opponent's colour, the next the player's.
C17_Closed(board, player, move, dir, n) ==
  /\ \A j \in 1 .. n :
       /\ OnBoard(RayCell(move, dir, j)[1], RayCell(move, dir, j)[2])
       /\ C17_Colour(board, move, dir, j) = PlayerToState(1 - player)
  /\ OnBoard(RayCell(move, dir, n + 1)[1], RayCell(move, dir, n + 1)[2])
  /\ C17_Colour(board, move, dir, n + 1) = PlayerToState(player)

\* CanCapture asks for the counts of empty cells only, for either player.
C17_CountSteps ==
  status = "running" =>
    \A move \in {m \in Cells : board_[m] = kEmpty} :
    \A player \in Players : \A dir \in Directions :
      LET c == CountSteps(board_, player, move, dir) IN
      /\ ~c.fatal
      /\ c.count \in 0 .. (kNumRows - 2)
      /\ c.count > 0 => C17_Closed(board_, player, move, dir, c.count)
      /\ (/\ c.count = 0
          \* no run is closed unless the first cell holds the opponent's colour
          /\ OnBoard(RayCell(move, dir, 1)[1], RayCell(move, dir, 1)[2])
          /\ C17_Colour(board_, move, dir, 1) = PlayerToState(1 - player)) =>
           \A n \in 1 .. kNumRows : ~C17_Closed(board_, player, move, dir, n)

\* A run of six opponent disks closed by the player's own disk at the edge of
\* the board, and a run of opponent disks that reaches the edge unclosed.
C17_Witness ==
  /\ status = "running"
  /\ \E player \in Players : \E move \in Cells : \E dir \in Directions :
       /\ board_[move] = kEmpty
       /\ CountSteps(board_, player, move, dir).count = kNumRows - 2
  /\ \E player \in Players : \E move \in Cells : \E dir \in Directions :
       /\ board_[move] = kEmpty
       /\ CountSteps(board_, player, move, dir).count = 0
       /\ OnBoard(RayCell(move, dir, 2)[1], RayCell(move, dir, 2)[2])
       /\ ~OnBoard(RayCell(move, dir, 3)[1], RayCell(move, dir, 3)[2])
       /\ C17_Colour(board_, move, dir, 1) = PlayerToState(1 - player)
       /\ C17_Colour(board_, move, dir, 2) = PlayerToState(1 - player)

(* ---------------------------------------------------------------------- *)
(* C18.  For every valid regular move the consistency check of Capture     *)
(* never fires during ApplyAction: the count recomputed for each direction *)
(* after the placement and the earlier flips designates only cells that    *)
(* are on the board and hold the opponent's colour, and RowColToMove does  *)
(* not fail inside Capture.                                                *)
(* ---------------------------------------------------------------------- *)
\* The boards of the capture loop: the board when direction dir is reached,
\* followed by those of the later directions and the final board.
RECURSIVE C18_Boards(_, _, _, _)
C18_Boards(board, player, move, dir) ==
  IF dir >= kLast THEN <<board>>
  ELSE LET k == CountSteps(board, player, move, dir).count
           next == IF k > 0 THEN Capture(board, player, move, dir, k).board ELSE board
       IN <<board>> \o C18_Boards(next, player, move, dir + 1)

C18_Placed(move) == [board_ EXCEPT ![move] = PlayerToState(current_player_)]

C18_CaptureConsistent ==
  (status = "running" /\ ~IsTerminalOf(outcome_)) =>
    \A move \in {m \in Cells : ValidAction(board_, current_player_, m).value} :
      LET bs == C18_Boards(C18_Placed(move), current_player_, move, kUp) IN
      /\ \A dir \in Directions :
           LET b == bs[dir + 1]
               k == CountSteps(b, current_player_, move, dir).count
           IN /\ \A j \in 1 .. k :
                   LET row == RayCell(move, dir, j)[1]
                       col == RayCell(move, dir, j)[2]
                   IN /\ OnBoard(row, col)
                      /\ b[row * kNumCols + col] = PlayerToState(1 - current_player_)
                      /\ RowColToMove(row, col)
                           = [fatal |-> FALSE, move |-> row * kNumCols + col]
              /\ k > 0 => Capture(b, current_player_, move, dir, k).status = "running"
      /\ PlaceAndCapture(Cur, move) = [status |-> "running", board |-> bs[kLast + 1]]

\* A valid move whose captures in an earlier direction changed the board on
\* which a later direction counts two or more disks.
C18_Witness ==
  /\ status = "running" /\ ~IsTerminalOf(outcome_)
  /\ \E move \in {m \in Cells : ValidAction(board_, current_player_, m).value} :
       LET bs == C18_Boards(C18_Placed(move), current_player_, move, kUp) IN
       \E dir \in Directions :
         /\ bs[dir + 1] # bs[1]
         /\ CountSteps(bs[dir + 1], current_player_, move, dir).count >= 2
         /\ PlaceAndCapture(Cur, move).status = "running"

(* ---------------------------------------------------------------------- *)
(* C19.  RowColFromMove fails for every move outside [0,64) and            *)
(* RowColToMove fails for every (row, col) that is not on the board, so    *)
(* that whenever RowColToMove returns, its result is an index in [0,64)    *)
(* denoting the cell at (row, col).                                        *)
(* ---------------------------------------------------------------------- *)
C19_OffBoardFails ==
  /\ (call.op = "RowColFromMove" /\ call.move \notin Cells) => call.result.fatal
  /\ (call.op = "RowColToMove" /\ ~OnBoard(call.row, call.col)) => call.result.fatal
  /\ (call.op = "RowColToMove" /\ ~call.result.fatal) =>
       /\ call.result.move \in Cells
       /\ OnBoard(call.row, call.col)
       /\ call.result.move \div kNumCols = call.row
       /\ call.result.move % kNumCols = call.col

(* ---------------------------------------------------------------------- *)
(* C20.  For every move m in [0,64) RowColFromMove(m) succeeds and returns *)
(* an on-board (row, col) with RowColToMove(row, col) = m = row * 8 + col; *)
(* for every on-board (row, col) RowColToMove succeeds and RowColFromMove  *)
(* of its result is (row, col).                                            *)
(* ---------------------------------------------------------------------- *)
C20_RoundTrip ==
  /\ (call.op = "RowColFromMove" /\ call.move \in Cells) =>
       /\ ~call.result.fatal
       /\ OnBoard(call.result.row, call.result.col)
       /\ RowColToMove(call.result.row, call.result.col)
            = [fatal |-> FALSE, move |-> call.move]
       /\ call.move = call.result.row * 8 + call.result.col
  /\ (call.op = "RowColToMove" /\ OnBoard(call.row, call.col)) =>
       /\ ~call.result.fatal
       /\ RowColFromMove(call.result.move)
            = [fatal |-> FALSE, row |-> call.row, col |-> call.col]

\* The last cell of the board, where row * col is largest, was converted.
C20_Witness ==
  /\ status = "running"
  /\ call.op = "RowColToMove" /\ call.row = kNumRows - 1 /\ call.col = kNumCols - 1
  /\ call.result = [fatal |-> FALSE, move |-> kNumCells - 1]
  /\ RowColFromMove(kNumCells - 1) = [fatal |-> FALSE, row |-> call.row, col |-> call.col]

====
